---- MODULE Spec2Model ----
(***************************************************************************)
(* Model of the grafana_report resource                                    *)
(* (internal/resources/grafana/resource_report.go): the translation of the *)
(* declarative report configuration into the wire command, the read path   *)
(* back into declarative state, the custom-interval parser and the         *)
(* start/end time equivalence used to suppress differences.                *)
(*                                                                         *)
(* Representation of Go values:                                            *)
(*  - a string that the code splits, joins, parses or formats is a         *)
(*    sequence of symbols: one symbol per character, except that a unit    *)
(*    word ("days") or an e-mail address is one symbol; "" is << >>;       *)
(*  - an RFC3339 time string is << >> when empty, <<wall, off>> when well  *)
(*    formed (wall clock reading and zone offset, in hours; the instant is *)
(*    wall - off), and any other tuple when malformed;                     *)
(*  - a time.Time / strfmt.DateTime is << >> when unset and <<instant>>    *)
(*    otherwise; instant 0 is Go's zero time (0001-01-01T00:00:00Z);       *)
(*  - other strings are TLA+ strings.                                      *)
(***************************************************************************)
EXTENDS Integers, Sequences, FiniteSets, TLC

VARIABLES
    d,            \* *schema.ResourceData of the report resource
    remote,       \* reports held by the remote service: remote[id] is <<entity>>,
                  \* or << >> once deleted
    op,           \* the last CRUD operation that ran
    cfg,          \* d as it was when that operation started
    build,        \* what schemaToReportParams returned in that operation
    sent,         \* requests that operation sent to the remote service
    result,       \* diagnostics that operation returned
    interval,     \* input of parseCustomReportInterval
    parsed,       \* its result
    reformatted,  \* custom_interval the read path writes from that result
    ipc,          \* position in the parse / reformat sequence
    told,         \* DiffSuppressFunc: value in state (old)
    tnew,         \* DiffSuppressFunc: value in configuration (new)
    now,          \* time.Now(), as an instant
    suppressed,   \* what the two DiffSuppressFuncs returned
    tpc           \* whether the DiffSuppressFuncs ran

vars == <<d, remote, op, cfg, build, sent, result,
          interval, parsed, reformatted, ipc, told, tnew, now, suppressed, tpc>>

mainVars == <<d, remote, op, cfg, build, sent, result>>
intervalVars == <<interval, parsed, reformatted, ipc>>
timeVars == <<told, tnew, now, suppressed, tpc>>

-----------------------------------------------------------------------------
(* Constants of the package.                                               *)

reportFrequencyHourly == "hourly"
reportFrequencyDaily == "daily"
reportFrequencyWeekly == "weekly"
reportFrequencyMonthly == "monthly"
reportFrequencyCustom == "custom"
reportFrequencyOnce == "once"
reportFrequencyNever == "never"

reportOrientationPortrait == "portrait"
reportOrientationLandscape == "landscape"
reportLayoutGrid == "grid"
reportLayoutSimple == "simple"

reportFormatPDF == "pdf"
reportFormatCSV == "csv"
reportFormatImage == "image"

reportStateDraft == "draft"
reportStateScheduled == "scheduled"
reportStatePaused == "paused"

reportFrequencies ==
    {reportFrequencyNever, reportFrequencyOnce, reportFrequencyHourly,
     reportFrequencyDaily, reportFrequencyWeekly, reportFrequencyMonthly,
     reportFrequencyCustom}

-----------------------------------------------------------------------------
(* Strings: strings.Split, strings.Join, strconv.Atoi, fmt.Sprintf("%d").  *)

NoErr == "none"

IndexOf(s, sep) ==
    IF \E i \in 1..Len(s) : s[i] = sep
    THEN CHOOSE i \in 1..Len(s) : s[i] = sep /\ \A j \in 1..(i - 1) : s[j] # sep
    ELSE 0

RECURSIVE Split(_, _)
Split(s, sep) ==
    LET i == IndexOf(s, sep) IN
    IF i = 0 THEN <<s>>
    ELSE <<SubSeq(s, 1, i - 1)>> \o Split(SubSeq(s, i + 1, Len(s)), sep)

RECURSIVE Join(_, _)
Join(list, sep) ==
    IF Len(list) = 0 THEN << >>
    ELSE IF Len(list) = 1 THEN list[1]
    ELSE list[1] \o <<sep>> \o Join(Tail(list), sep)

DigitChars == <<"0", "1", "2", "3", "4", "5", "6", "7", "8", "9">>

IsDigit(c) == \E i \in 1..10 : DigitChars[i] = c

DigitValue(c) == (CHOOSE i \in 1..10 : DigitChars[i] = c) - 1

RECURSIVE DigitsValue(_)
DigitsValue(s) ==
    IF Len(s) = 0 THEN 0
    ELSE 10 * DigitsValue(SubSeq(s, 1, Len(s) - 1)) + DigitValue(s[Len(s)])

\* strconv.Atoi: an optional sign, then at least one decimal digit.
Atoi(s) ==
    LET signed == Len(s) > 0 /\ s[1] \in {"+", "-"}
        body == IF signed THEN Tail(s) ELSE s
    IN  IF Len(body) = 0 \/ \E i \in 1..Len(body) : ~IsDigit(body[i])
        THEN [n |-> 0, err |-> "syntax"]
        ELSE [n |-> IF signed /\ s[1] = "-" THEN 0 - DigitsValue(body)
                    ELSE DigitsValue(body),
              err |-> NoErr]

RECURSIVE NatDigits(_)
NatDigits(n) ==
    IF n < 10 THEN <<DigitChars[n + 1]>>
    ELSE NatDigits(n \div 10) \o <<DigitChars[(n % 10) + 1]>>

\* The verb %d of fmt.Sprintf.
FormatInt(n) == IF n < 0 THEN <<"-">> \o NatDigits(0 - n) ELSE NatDigits(n)

-----------------------------------------------------------------------------
(* parseCustomReportInterval.                                              *)

parseErr == "custom_interval must be in format number unit"

parseCustomReportInterval_anyTokens(v) ==
    LET split == Split(v, " ") IN
    IF Len(split) < 2 THEN [number |-> 0, unit |-> << >>, err |-> parseErr]
    ELSE LET a == Atoi(split[1]) IN
         IF a.err # NoErr THEN [number |-> 0, unit |-> << >>, err |-> parseErr]
         ELSE IF split[2] \notin {<<"hours">>, <<"days">>, <<"weeks">>, <<"months">>}
              THEN [number |-> 0, unit |-> << >>, err |-> parseErr]
              ELSE [number |-> a.n, unit |-> split[2], err |-> NoErr]

parseCustomReportInterval(v) ==
    LET split == Split(v, " ") IN
    IF Len(split) # 2 THEN [number |-> 0, unit |-> << >>, err |-> parseErr]
    ELSE LET a == Atoi(split[1]) IN
         IF a.err # NoErr THEN [number |-> 0, unit |-> << >>, err |-> parseErr]
         ELSE IF split[2] \notin {<<"hours">>, <<"days">>, <<"weeks">>, <<"months">>}
              THEN [number |-> 0, unit |-> << >>, err |-> parseErr]
              ELSE [number |-> a.n, unit |-> split[2], err |-> NoErr]

readCustomInterval_noSpace(amount, unit) ==
    IF amount # 0 /\ unit # << >>
    THEN FormatInt(amount) \o unit
    ELSE << >>

\* ReadReport's custom_interval: written only when amount and unit are set.
readCustomInterval(amount, unit) ==
    IF amount # 0 /\ unit # << >>
    THEN FormatInt(amount) \o <<" ">> \o unit
    ELSE << >>

-----------------------------------------------------------------------------
(* Times: time.Parse(time.RFC3339, s), Time.UTC, Time.Equal, Time.Before.  *)

ZeroTime == 0

\* time.Parse: the instant, or the zero time and an error.
TimeParse(s) ==
    IF Len(s) = 2 THEN [t |-> s[1] - s[2], err |-> NoErr]
    ELSE [t |-> ZeroTime, err |-> "parsing time"]

\* The RFC3339 rendering of an instant in UTC.
FormatUTC(t) == <<t, 0>>

\* DiffSuppressFunc of schedule.start_time.
startTimeDiffSuppress(old, new, nowT) ==
    LET oldParsed == TimeParse(old).t
        newParsed == TimeParse(new).t
    IN  IF new = << >> /\ oldParsed < nowT THEN TRUE
        ELSE oldParsed = newParsed

\* DiffSuppressFunc of schedule.end_time.
endTimeDiffSuppress(old, new) ==
    LET oldParsed == TimeParse(old).t
        newParsed == TimeParse(new).t
    IN  oldParsed = newParsed

-----------------------------------------------------------------------------
(* The wire command: models.CreateOrUpdateConfigCmd.  A pointer is a       *)
(* sequence of length 0 (nil) or 1.                                        *)

createReportSchema(c) ==
    [name |-> c.name,
     enableDashboardURL |-> c.include_dashboard_link,
     enableCSV |-> c.include_table_csv,
     message |-> c.message,
     options |-> [layout |-> c.layout, orientation |-> c.orientation,
                  timeRange |-> << >>],
     recipients |-> Join(c.recipients, ","),
     replyTo |-> c.reply_to,
     scaleFactor |-> c.scale_factor,
     state |-> c.state,
     schedule |-> [frequency |-> c.schedule.frequency,
                   timeZone |-> c.schedule.timezone,
                   startDate |-> << >>,
                   endDate |-> << >>,
                   dayOfMonth |-> "",
                   workdaysOnly |-> FALSE,
                   intervalAmount |-> 0,
                   intervalFrequency |-> << >>],
     dashboards |-> << >>,
     dashboardID |-> 0,
     templateVars |-> "",
     formats |-> {}]

identityErr == "dashboard_id or dashboard_uid should be set"

setDeprecatedDashboardValues_withID(report, c) ==
    LET id == c.dashboard_id
        uid == c.dashboard_uid
        timeRangeDTO ==
            IF Len(c.time_range) > 0
            THEN [from |-> c.time_range[1].from, to |-> c.time_range[1].to]
            ELSE [from |-> "", to |-> ""]
    IN  IF id = 0 /\ uid = "" THEN [report |-> report, err |-> identityErr]
        ELSE IF uid = ""
        THEN [report |-> [report EXCEPT !.dashboardID = id,
                                        !.options.timeRange = <<timeRangeDTO>>,
                                        !.templateVars = c.template_vars],
              err |-> NoErr]
        ELSE [report |-> [report EXCEPT !.dashboardID = id,
                                        !.dashboards =
                             <<[dashboard |-> [id |-> 0, uid |-> uid],
                                reportVariables |-> c.template_vars,
                                timeRange |-> <<timeRangeDTO>>]>>],
              err |-> NoErr]

setDeprecatedDashboardValues(report, c) ==
    LET id == c.dashboard_id
        uid == c.dashboard_uid
        timeRangeDTO ==
            IF Len(c.time_range) > 0
            THEN [from |-> c.time_range[1].from, to |-> c.time_range[1].to]
            ELSE [from |-> "", to |-> ""]
    IN  IF id = 0 /\ uid = "" THEN [report |-> report, err |-> identityErr]
        ELSE IF uid = ""
        THEN [report |-> [report EXCEPT !.dashboardID = id,
                                        !.options.timeRange = <<timeRangeDTO>>,
                                        !.templateVars = c.template_vars],
              err |-> NoErr]
        ELSE [report |-> [report EXCEPT !.dashboards =
                             <<[dashboard |-> [id |-> 0, uid |-> uid],
                                reportVariables |-> c.template_vars,
                                timeRange |-> <<timeRangeDTO>>]>>],
              err |-> NoErr]

reportWorkdaysOnlyConfigAllowed_withWeekly(frequency) ==
    frequency \in {reportFrequencyHourly, reportFrequencyDaily,
                   reportFrequencyWeekly, reportFrequencyCustom}

reportWorkdaysOnlyConfigAllowed(frequency) ==
    \/ frequency = reportFrequencyHourly
    \/ frequency = reportFrequencyDaily
    \/ frequency = reportFrequencyCustom

\* The steps of setReportFrequency, in the order of the code; each returns
\* the report and the error of that step.  Time.UTC keeps the instant.
setStartDate(report, c) ==
    IF report.schedule.frequency # reportFrequencyNever
       /\ c.schedule.start_time # << >>
    THEN LET p == TimeParse(c.schedule.start_time) IN
         IF p.err # NoErr THEN [report |-> report, err |-> p.err]
         ELSE [report |-> [report EXCEPT !.schedule.startDate = <<p.t>>],
               err |-> NoErr]
    ELSE [report |-> report, err |-> NoErr]

setEndDate_anyFrequency(report, c) ==
    IF c.schedule.end_time # << >>
    THEN LET p == TimeParse(c.schedule.end_time) IN
         IF p.err # NoErr THEN [report |-> report, err |-> p.err]
         ELSE [report |-> [report EXCEPT !.schedule.endDate = <<p.t>>],
               err |-> NoErr]
    ELSE [report |-> report, err |-> NoErr]

setEndDate(report, c) ==
    IF report.schedule.frequency # reportFrequencyOnce
       /\ report.schedule.frequency # reportFrequencyNever
       /\ c.schedule.end_time # << >>
    THEN LET p == TimeParse(c.schedule.end_time) IN
         IF p.err # NoErr THEN [report |-> report, err |-> p.err]
         ELSE [report |-> [report EXCEPT !.schedule.endDate = <<p.t>>],
               err |-> NoErr]
    ELSE [report |-> report, err |-> NoErr]

setDayOfMonth_anyFrequency(report, c) ==
    IF c.schedule.last_day_of_month
    THEN [report EXCEPT !.schedule.dayOfMonth = "last"]
    ELSE report

setDayOfMonth(report, c) ==
    IF report.schedule.frequency = reportFrequencyMonthly
       /\ c.schedule.last_day_of_month
    THEN [report EXCEPT !.schedule.dayOfMonth = "last"]
    ELSE report

setWorkdaysOnly(report, c) ==
    IF reportWorkdaysOnlyConfigAllowed(report.schedule.frequency)
    THEN [report EXCEPT !.schedule.workdaysOnly = c.schedule.workdays_only]
    ELSE report

setCustomInterval_ungated(report, c) ==
    IF report.schedule.frequency = reportFrequencyCustom
       \/ c.schedule.custom_interval # << >>
    THEN LET p == parseCustomReportInterval(c.schedule.custom_interval) IN
         IF p.err # NoErr THEN [report |-> report, err |-> p.err]
         ELSE [report |-> [report EXCEPT !.schedule.intervalAmount = p.number,
                                         !.schedule.intervalFrequency = p.unit],
               err |-> NoErr]
    ELSE [report |-> report, err |-> NoErr]

setCustomInterval(report, c) ==
    IF report.schedule.frequency = reportFrequencyCustom
    THEN LET p == parseCustomReportInterval(c.schedule.custom_interval) IN
         IF p.err # NoErr THEN [report |-> report, err |-> p.err]
         ELSE [report |-> [report EXCEPT !.schedule.intervalAmount = p.number,
                                         !.schedule.intervalFrequency = p.unit],
               err |-> NoErr]
    ELSE [report |-> report, err |-> NoErr]

setReportFrequency(report, c) ==
    LET s == setStartDate(report, c) IN
    IF s.err # NoErr THEN s
    ELSE LET e == setEndDate(s.report, c) IN
         IF e.err # NoErr THEN e
         ELSE setCustomInterval(setWorkdaysOnly(setDayOfMonth(e.report, c), c), c)

\* schemaToReportParams: the command (a pointer) and the error.
schemaToReportParams(c) ==
    LET report == createReportSchema(c)
        bound == IF Len(c.dashboards) > 0
                 THEN [report |-> report, err |-> NoErr]
                 ELSE setDeprecatedDashboardValues(report, c)
    IN  IF bound.err # NoErr THEN [cmd |-> << >>, err |-> bound.err]
        ELSE LET withFormats ==
                     IF Cardinality(c.formats) = 0
                     THEN [bound.report EXCEPT !.formats = {reportFormatPDF}]
                     ELSE bound.report
                 f == setReportFrequency(withFormats, c)
             IN  IF f.err # NoErr THEN [cmd |-> << >>, err |-> f.err]
                 ELSE [cmd |-> <<f.report>>, err |-> NoErr]

-----------------------------------------------------------------------------
(* The remote service, as the client sees it: it keeps the command it was  *)
(* sent as the report, under the id it assigned.                           *)

orgID == "1"

reportOf(id, cmd) ==
    [id |-> id,
     orgID |-> orgID,
     name |-> cmd.name,
     enableDashboardURL |-> cmd.enableDashboardURL,
     enableCSV |-> cmd.enableCSV,
     message |-> cmd.message,
     options |-> cmd.options,
     recipients |-> cmd.recipients,
     replyTo |-> cmd.replyTo,
     scaleFactor |-> cmd.scaleFactor,
     state |-> cmd.state,
     schedule |-> cmd.schedule,
     dashboards |-> cmd.dashboards,
     formats |-> cmd.formats]

remoteErr == "remote error"
idErr == "invalid resource id"
panicIndex == "panic: index out of range"
panicNil == "panic: nil pointer dereference"
ok == "ok"

Exists(rem, id) == id \in 1..Len(rem) /\ rem[id] # << >>

\* strfmt.DateTime.String as the read path tests it: empty when unset.
DateTimeString(dt) == IF dt = << >> THEN << >> ELSE FormatUTC(dt[1])

\* The schedule block of ReadReport: the map it gives to d.Set, and the
\* error of time.Parse.
readSchedule(sch) ==
    LET start == DateTimeString(sch.startDate)
        end == DateTimeString(sch.endDate)
        ps == TimeParse(start)
        pe == TimeParse(end)
    IN  IF start # << >> /\ ps.err # NoErr THEN [schedule |-> << >>, err |-> ps.err]
        ELSE IF end # << >> /\ pe.err # NoErr THEN [schedule |-> << >>, err |-> pe.err]
        ELSE [schedule |->
                <<[timezone |-> sch.timeZone,
                   frequency |-> sch.frequency,
                   workdays_only |-> sch.workdaysOnly,
                   custom_interval |->
                       readCustomInterval(sch.intervalAmount, sch.intervalFrequency),
                   start_time |-> IF start # << >> THEN FormatUTC(ps.t) ELSE << >>,
                   end_time |-> IF end # << >> THEN FormatUTC(pe.t) ELSE << >>,
                   last_day_of_month |-> (sch.dayOfMonth = "last")]>>,
              err |-> NoErr]

\* ReadReport on resource data dd against the reports rem; fails says
\* whether the transport fails.  Returns the resource data, the requests
\* sent and the diagnostics.  A report that is gone clears the id
\* (common.CheckReadError).  Indexing the zeroth dashboard of a report that
\* has none aborts the read: nothing is written to the resource data.
\* Attributes the read does not set keep the value they had: formats when
\* it was empty, time_range when the report's range has no from.
ReadReportOf(dd, rem, fails) ==
    IF dd.id = 0 THEN [d |-> dd, sent |-> {}, result |-> idErr]
    ELSE IF fails THEN [d |-> dd, sent |-> {"get"}, result |-> remoteErr]
    ELSE IF ~Exists(rem, dd.id)
    THEN [d |-> [dd EXCEPT !.id = 0], sent |-> {"get"}, result |-> ok]
    ELSE
        LET r == rem[dd.id][1] IN
        IF Len(r.dashboards) = 0
        THEN [d |-> dd, sent |-> {"get"}, result |-> panicIndex]
        ELSE IF Len(r.dashboards[1].timeRange) = 0
        THEN [d |-> dd, sent |-> {"get"}, result |-> panicNil]
        ELSE
            LET timeRange == r.dashboards[1].timeRange[1]
                sch == readSchedule(r.schedule)
                d1 == [dd EXCEPT
                        !.id = dd.id,
                        !.dashboard_id = r.dashboards[1].dashboard.id,
                        !.dashboard_uid = r.dashboards[1].dashboard.uid,
                        !.name = r.name,
                        !.recipients = Split(r.recipients, ","),
                        !.reply_to = r.replyTo,
                        !.message = r.message,
                        !.include_dashboard_link = r.enableDashboardURL,
                        !.include_table_csv = r.enableCSV,
                        !.layout = r.options.layout,
                        !.orientation = r.options.orientation,
                        !.org_id = r.orgID,
                        !.state = r.state,
                        !.scale_factor = r.scaleFactor,
                        !.formats = IF dd.formats # {} THEN r.formats ELSE dd.formats,
                        !.time_range =
                            IF timeRange.from # ""
                            THEN <<[from |-> timeRange.from, to |-> timeRange.to]>>
                            ELSE dd.time_range]
            IN  IF sch.err # NoErr
                THEN [d |-> d1, sent |-> {"get"}, result |-> sch.err]
                ELSE [d |-> [d1 EXCEPT !.schedule = sch.schedule[1]],
                      sent |-> {"get"}, result |-> ok]

-----------------------------------------------------------------------------
(* Configurations.  The schema validates start_time and end_time as        *)
(* RFC3339 and a non-empty custom_interval with parseCustomReportInterval, *)
(* so the configurations hold well-formed values of these; an unset        *)
(* custom_interval is not validated.  Times: instant 1 in UTC, instant 2   *)
(* in UTC and at +01:00.                                                   *)

\* Reports the remote service is asked to create.
MaxReports == 1

IntervalTexts == {<< >>, <<"2", " ", "days">>, <<"0", " ", "weeks">>}

Schedules ==
    [frequency : reportFrequencies,
     start_time : {<< >>, <<1, 0>>, <<3, 1>>},
     end_time : {<< >>, <<2, 0>>},
     workdays_only : BOOLEAN,
     custom_interval : IntervalTexts,
     last_day_of_month : BOOLEAN,
     timezone : {"America/Los_Angeles"}]

TimeRanges == {<< >>, <<[from |-> "now-1h", to |-> "now"]>>}

\* The dashboards of the report: the deprecated attributes with an empty
\* list, or the list of examples/.../grafana_report with them unset.
Bindings ==
    [dashboard_id : {0, 7},
     dashboard_uid : {"", "report"},
     time_range : TimeRanges,
     dashboards : {<< >>}]
    \cup
    [dashboard_id : {0},
     dashboard_uid : {""},
     time_range : {<< >>},
     dashboards :
        {<<[uid |-> "report",
            time_range |-> <<[from |-> "now-1h", to |-> "now"]>>,
            report_variables |-> ""],
           [uid |-> "report", time_range |-> << >>, report_variables |-> ""]>>}]

FormatSets == {{}, {reportFormatCSV, reportFormatImage}}

Config(b, sch, f) ==
    [id |-> 0,
     org_id |-> orgID,
     name |-> "multiple dashboards report",
     recipients |-> << <<"some@email.com">>, <<"other@email.com">> >>,
     reply_to |-> "reply@email.com",
     message |-> "hello",
     include_dashboard_link |-> TRUE,
     include_table_csv |-> FALSE,
     layout |-> reportLayoutGrid,
     orientation |-> reportOrientationPortrait,
     formats |-> f,
     state |-> reportStateScheduled,
     scale_factor |-> 2,
     dashboard_id |-> b.dashboard_id,
     dashboard_uid |-> b.dashboard_uid,
     time_range |-> b.time_range,
     template_vars |-> "vars",
     dashboards |-> b.dashboards,
     schedule |-> sch]

Configs == {Config(b, sch, f) : b \in Bindings, sch \in Schedules, f \in FormatSets}

-----------------------------------------------------------------------------
(* The CRUD operations.                                                    *)

IdleInterval ==
    /\ interval = << >>
    /\ parsed = [number |-> 0, unit |-> << >>, err |-> NoErr]
    /\ reformatted = << >>
    /\ ipc = "idle"

IdleTime ==
    /\ told = << >>
    /\ tnew = << >>
    /\ now = 0
    /\ suppressed = [start |-> FALSE, end |-> FALSE]
    /\ tpc = {}

NoBuild == [cmd |-> << >>, err |-> NoErr]

Init ==
    /\ d \in Configs
    /\ remote = << >>
    /\ op = "none"
    /\ cfg = d
    /\ build = NoBuild
    /\ sent = {}
    /\ result = ok
    /\ IdleInterval
    /\ IdleTime

\* CreateReport.  The error of schemaToReportParams is turned into
\* diagnostics that are dropped, and the request is sent with the nil
\* command, which the service refuses.
CreateReport ==
    /\ Len(remote) < MaxReports
    /\ \E failCreate \in BOOLEAN, failGet \in BOOLEAN :
        LET req == schemaToReportParams(d) IN
        /\ op' = "create"
        /\ cfg' = d
        /\ build' = req
        /\ IF failCreate \/ Len(req.cmd) = 0
           THEN /\ sent' = {"create"}
                /\ result' = remoteErr
                /\ UNCHANGED <<d, remote>>
           ELSE LET id == Len(remote) + 1
                    rem == Append(remote, <<reportOf(id, req.cmd[1])>>)
                    rd == ReadReportOf([d EXCEPT !.id = id], rem, failGet)
                IN  /\ remote' = rem
                    /\ sent' = {"create"} \cup rd.sent
                    /\ result' = rd.result
                    /\ d' = rd.d
    /\ UNCHANGED <<intervalVars, timeVars>>

ReadReport ==
    /\ \E failGet \in BOOLEAN :
        LET rd == ReadReportOf(d, remote, failGet) IN
        /\ op' = "read"
        /\ cfg' = d
        /\ build' = NoBuild
        /\ sent' = rd.sent
        /\ result' = rd.result
        /\ d' = rd.d
    /\ UNCHANGED <<remote, intervalVars, timeVars>>

UpdateReport ==
    /\ \E failUpdate \in BOOLEAN, failGet \in BOOLEAN :
        /\ op' = "update"
        /\ cfg' = d
        /\ IF d.id = 0
           THEN /\ build' = NoBuild
                /\ sent' = {}
                /\ result' = idErr
                /\ UNCHANGED <<d, remote>>
           ELSE LET report == schemaToReportParams(d) IN
                /\ build' = report
                /\ IF report.err # NoErr
                   THEN /\ sent' = {}
                        /\ result' = report.err
                        /\ UNCHANGED <<d, remote>>
                   ELSE IF failUpdate \/ ~Exists(remote, d.id)
                   THEN /\ sent' = {"update"}
                        /\ result' = remoteErr
                        /\ UNCHANGED <<d, remote>>
                   ELSE LET rem == [remote EXCEPT
                                       ![d.id] = <<reportOf(d.id, report.cmd[1])>>]
                            rd == ReadReportOf(d, rem, failGet)
                        IN  /\ remote' = rem
                            /\ sent' = {"update"} \cup rd.sent
                            /\ result' = rd.result
                            /\ d' = rd.d
    /\ UNCHANGED <<intervalVars, timeVars>>

\* DeleteReport: a report that is already gone counts as deleted.
DeleteReport ==
    /\ \E failDelete \in BOOLEAN :
        /\ op' = "delete"
        /\ cfg' = d
        /\ build' = NoBuild
        /\ IF d.id = 0
           THEN /\ sent' = {}
                /\ result' = idErr
                /\ UNCHANGED <<d, remote>>
           ELSE IF failDelete
           THEN /\ sent' = {"delete"}
                /\ result' = remoteErr
                /\ UNCHANGED <<d, remote>>
           ELSE /\ sent' = {"delete"}
                /\ result' = ok
                /\ d' = [d EXCEPT !.id = 0]
                /\ remote' = IF Exists(remote, d.id)
                             THEN [remote EXCEPT ![d.id] = << >>]
                             ELSE remote
    /\ UNCHANGED <<intervalVars, timeVars>>

Next == CreateReport \/ ReadReport \/ UpdateReport \/ DeleteReport

Spec == Init /\ [][Next]_vars

-----------------------------------------------------------------------------
(* parseCustomReportInterval and the read path's rendering, on their own.  *)

MaxIntervalLen == 4

IntervalAlphabet == {"0", "1", "+", "-", " ", "hours", "days", "weeks", "months"}

IntervalStrings == UNION {[1..k -> IntervalAlphabet] : k \in 0..MaxIntervalLen}

BlankConfig ==
    Config([dashboard_id |-> 0, dashboard_uid |-> "", time_range |-> << >>,
            dashboards |-> << >>],
           [frequency |-> reportFrequencyNever, start_time |-> << >>,
            end_time |-> << >>, workdays_only |-> FALSE,
            custom_interval |-> << >>, last_day_of_month |-> FALSE,
            timezone |-> "GMT"],
           {})

IdleMain ==
    /\ d = BlankConfig
    /\ remote = << >>
    /\ op = "none"
    /\ cfg = BlankConfig
    /\ build = NoBuild
    /\ sent = {}
    /\ result = ok

InitInterval ==
    /\ IdleMain
    /\ IdleTime
    /\ interval \in IntervalStrings
    /\ parsed = [number |-> 0, unit |-> << >>, err |-> NoErr]
    /\ reformatted = << >>
    /\ ipc = "input"

\* schedule.custom_interval goes through parseCustomReportInterval.
ParseInterval ==
    /\ ipc = "input"
    /\ parsed' = parseCustomReportInterval(interval)
    /\ ipc' = "parsed"
    /\ UNCHANGED <<interval, reformatted, mainVars, timeVars>>

\* The amount and unit come back from the service and ReadReport renders them.
ReformatInterval ==
    /\ ipc = "parsed"
    /\ parsed.err = NoErr
    /\ reformatted' = readCustomInterval(parsed.number, parsed.unit)
    /\ ipc' = "reformatted"
    /\ UNCHANGED <<interval, parsed, mainVars, timeVars>>

NextInterval == ParseInterval \/ ReformatInterval

SpecInterval == InitInterval /\ [][NextInterval]_vars

-----------------------------------------------------------------------------
(* The DiffSuppressFuncs of schedule.start_time and schedule.end_time, on  *)
(* their own.                                                              *)

MaxInstant == 2

\* Instants around Go's zero time; year 0000 is before it.
TimeInstants == (0 - 1)..MaxInstant

SuppressInputs ==
    {<< >>} \cup {<<t, 0>> : t \in TimeInstants} \cup {<<t + 1, 1>> : t \in TimeInstants}

InitTime ==
    /\ IdleMain
    /\ IdleInterval
    /\ told \in SuppressInputs
    /\ tnew \in SuppressInputs
    /\ now \in (0 - 1)..(MaxInstant + 1)
    /\ suppressed = [start |-> FALSE, end |-> FALSE]
    /\ tpc = {}

StartTimeDiffSuppress ==
    /\ "start" \notin tpc
    /\ suppressed' = [suppressed EXCEPT !.start = startTimeDiffSuppress(told, tnew, now)]
    /\ tpc' = tpc \cup {"start"}
    /\ UNCHANGED <<told, tnew, now, mainVars, intervalVars>>

EndTimeDiffSuppress ==
    /\ "end" \notin tpc
    /\ suppressed' = [suppressed EXCEPT !.end = endTimeDiffSuppress(told, tnew)]
    /\ tpc' = tpc \cup {"end"}
    /\ UNCHANGED <<told, tnew, now, mainVars, intervalVars>>

NextTime == StartTimeDiffSuppress \/ EndTimeDiffSuppress

SpecTime == InitTime /\ [][NextTime]_vars

-----------------------------------------------------------------------------
(* ReadReport on its own: a refresh of state that was written earlier, of  *)
(* a report that another configuration wrote since.                        *)

\* State before the refresh: any configuration without schedule times.
ReadPriors ==
    {c \in Configs : c.schedule.start_time = << >> /\ c.schedule.end_time = << >>}

\* Configurations the report on the service was last written from.
ReadSources ==
    {Config(b, sch, f) :
        b \in Bindings,
        sch \in {s \in Schedules :
                    \/ /\ s.frequency = reportFrequencyMonthly
                       /\ s.last_day_of_month /\ ~s.workdays_only
                       /\ s.custom_interval = << >>
                       /\ s.start_time = << >> /\ s.end_time = << >>
                    \/ /\ s.frequency = reportFrequencyCustom
                       /\ ~s.last_day_of_month /\ s.workdays_only
                       /\ s.custom_interval = <<"2", " ", "days">>
                       /\ s.start_time = <<3, 1>> /\ s.end_time = <<2, 0>>},
        f \in FormatSets}

StoredCommands ==
    {schemaToReportParams(c).cmd[1] :
        c \in {x \in ReadSources : schemaToReportParams(x).err = NoErr}}

InitRead ==
    /\ \E c \in ReadPriors, cmd \in StoredCommands :
          /\ d = [c EXCEPT !.id = 1]
          /\ remote = << <<reportOf(1, cmd)>> >>
    /\ op = "none"
    /\ cfg = d
    /\ build = NoBuild
    /\ sent = {}
    /\ result = ok
    /\ IdleInterval
    /\ IdleTime

NextRead == ReadReport

SpecRead == InitRead /\ [][NextRead]_vars

-----------------------------------------------------------------------------
(* Properties.                                                             *)

\* The last operation called schemaToReportParams.
Attempted == op = "create" \/ (op = "update" /\ cfg.id # 0)

\* It returned a command.
Built == Attempted /\ Len(build.cmd) = 1

\* The last operation ended in a completed read of the report d.id.
ReadBack ==
    /\ op \in {"create", "update", "read"}
    /\ result = ok
    /\ Exists(remote, d.id)

LegacyUID(c) == Len(c.dashboards) = 0 /\ c.dashboard_uid # ""

\* C1: in create and in update, when building the wire command fails, the
\* operation returns that error and sends no create or update request.
C1_BuildErrorBeforeNetwork ==
    (Attempted /\ build.err # NoErr)
        => (result = build.err /\ sent \cap {"create", "update"} = {})

\* C2: with a non-empty dashboards list the wire command has one binding per
\* list item, in list order, with the item's uid and its time range, or no
\* time range when the item declares none.
C2_BindingPerListItem ==
    (Built /\ Len(cfg.dashboards) > 0)
        => build.cmd[1].dashboards =
              [i \in 1..Len(cfg.dashboards) |->
                  [dashboard |-> [id |-> 0, uid |-> cfg.dashboards[i].uid],
                   reportVariables |-> cfg.dashboards[i].report_variables,
                   timeRange |-> cfg.dashboards[i].time_range]]

\* The attributes of the round trip of C3.
RoundTripFields(c) ==
    <<c.name, c.recipients, c.reply_to, c.message, c.include_dashboard_link,
      c.include_table_csv, c.layout, c.orientation, c.scale_factor, c.state,
      c.dashboard_uid, c.time_range, c.schedule>>

\* C3 as stated: for every configuration of the legacy uid form, building
\* the command, storing it and reading it back gives state equal to the
\* configuration.
C3_RoundTripAnyLegacyUID ==
    (op = "create" /\ result = ok /\ LegacyUID(cfg))
        => RoundTripFields(d) = RoundTripFields(cfg)

\* The schedule attributes are set only where the frequency transmits them,
\* the times are written in UTC and the custom interval is
\* "<n> <unit>" with n >= 1 in plain decimal.
Transmitted(sch) ==
    /\ sch.start_time # << >>
          => (sch.frequency # reportFrequencyNever /\ sch.start_time[2] = 0)
    /\ sch.end_time # << >>
          => (sch.frequency \notin {reportFrequencyOnce, reportFrequencyNever}
              /\ sch.end_time[2] = 0)
    /\ sch.workdays_only
          => sch.frequency \in {reportFrequencyHourly, reportFrequencyDaily,
                                reportFrequencyCustom}
    /\ sch.last_day_of_month => sch.frequency = reportFrequencyMonthly
    /\ sch.custom_interval # << >>
          => (sch.frequency = reportFrequencyCustom
              /\ sch.custom_interval[1] \notin {"0", "+", "-"})

\* C3, amended: the round trip reproduces the configuration when, besides
\* using the legacy uid form, its schedule sets only attributes that its
\* frequency transmits, with times in UTC and a custom interval in plain
\* decimal with amount >= 1.
C3_RoundTripTransmitted ==
    (op = "create" /\ result = ok /\ LegacyUID(cfg) /\ Transmitted(cfg.schedule))
        => RoundTripFields(d) = RoundTripFields(cfg)

C3_Witness ==
    /\ op = "create" /\ result = ok /\ LegacyUID(cfg)
    /\ Transmitted(cfg.schedule)
    /\ cfg.schedule.frequency = reportFrequencyCustom
    /\ cfg.schedule.custom_interval = <<"2", " ", "days">>
    /\ cfg.schedule.start_time = <<1, 0>>
    /\ cfg.schedule.end_time = <<2, 0>>
    /\ cfg.schedule.workdays_only
    /\ Len(cfg.time_range) = 1
    /\ d.schedule = cfg.schedule

\* C4: the formats of the wire command are {pdf} when none is declared and
\* the declared formats otherwise.
C4_FormatsOfCommand ==
    Built => build.cmd[1].formats =
                IF cfg.formats = {} THEN {reportFormatPDF} ELSE cfg.formats

C6_ReformatAnyAccepted ==
    (ipc = "reformatted" /\ parsed.number >= 0) => reformatted = interval

\* C6, amended: the string comes back when its amount is at least 1 and is
\* written in plain decimal, without a sign or leading zeros.
C6_ReformatPlainPositive ==
    (ipc = "reformatted" /\ parsed.number >= 1
     /\ interval[1] \notin {"+", "-", "0"})
        => reformatted = interval

C6_Witness ==
    /\ ipc = "reformatted"
    /\ interval = <<"1", "0", " ", "weeks">>
    /\ parsed.number = 10
    /\ reformatted = interval

\* C7: the custom interval follows frequency = custom.  With custom, an
\* empty custom_interval fails the build and a valid one gives the wire
\* amount and unit; with another frequency the wire amount stays 0 and the
\* unit empty whatever is declared, and the state read back has no
\* custom_interval.
C7_CustomIntervalGated ==
    /\ (Attempted /\ cfg.schedule.frequency = reportFrequencyCustom
        /\ cfg.schedule.custom_interval = << >>)
          => (build.err # NoErr /\ Len(build.cmd) = 0)
    /\ (Built /\ cfg.schedule.frequency = reportFrequencyCustom)
          => /\ cfg.schedule.custom_interval = <<"2", " ", "days">>
                   => /\ build.cmd[1].schedule.intervalAmount = 2
                      /\ build.cmd[1].schedule.intervalFrequency = <<"days">>
             /\ cfg.schedule.custom_interval = <<"0", " ", "weeks">>
                   => /\ build.cmd[1].schedule.intervalAmount = 0
                      /\ build.cmd[1].schedule.intervalFrequency = <<"weeks">>
    /\ (Built /\ cfg.schedule.frequency # reportFrequencyCustom)
          => /\ build.cmd[1].schedule.intervalAmount = 0
             /\ build.cmd[1].schedule.intervalFrequency = << >>
    /\ (ReadBack /\ remote[d.id][1].schedule.frequency # reportFrequencyCustom)
          => d.schedule.custom_interval = << >>

C7_Witness ==
    /\ op = "create" /\ ReadBack
    /\ cfg.schedule.frequency = reportFrequencyDaily
    /\ cfg.schedule.custom_interval = <<"2", " ", "days">>
    /\ build.cmd[1].schedule.intervalAmount = 0
    /\ d.schedule.custom_interval = << >>

\* C8: the wire workdaysOnly is the declared flag for hourly, daily and
\* custom, and false for weekly, monthly, once and never.
C8_WorkdaysOnlyByFrequency ==
    Built => build.cmd[1].schedule.workdaysOnly =
                IF cfg.schedule.frequency \in
                      {reportFrequencyHourly, reportFrequencyDaily, reportFrequencyCustom}
                THEN cfg.schedule.workdays_only
                ELSE FALSE

C8_Witness ==
    /\ Built
    /\ cfg.schedule.frequency = reportFrequencyWeekly
    /\ cfg.schedule.workdays_only
    /\ ~build.cmd[1].schedule.workdaysOnly

\* C9: the wire dayOfMonth is "last" exactly for monthly with
\* last_day_of_month and unset otherwise, and the state read back has
\* last_day_of_month exactly when the stored dayOfMonth is "last".
C9_LastDayOfMonth ==
    /\ Built
          => build.cmd[1].schedule.dayOfMonth =
                IF cfg.schedule.frequency = reportFrequencyMonthly
                   /\ cfg.schedule.last_day_of_month
                THEN "last" ELSE ""
    /\ ReadBack
          => (d.schedule.last_day_of_month
                <=> remote[d.id][1].schedule.dayOfMonth = "last")

C9_Witness ==
    /\ op = "create" /\ ReadBack
    /\ cfg.schedule.frequency = reportFrequencyMonthly
    /\ cfg.schedule.last_day_of_month
    /\ build.cmd[1].schedule.dayOfMonth = "last"
    /\ d.schedule.last_day_of_month

\* C10: start (end) times are equal when their instants match; an empty
\* declared start time is also equal to a stored start time before now; an
\* empty declared end time is equal to an empty stored end time only, and a
\* non-empty stored end time then shows as a difference.
C10_TimeEquivalence ==
    /\ ("start" \in tpc /\ told # << >> /\ tnew # << >>)
          => (suppressed.start <=> told[1] - told[2] = tnew[1] - tnew[2])
    /\ ("start" \in tpc /\ tnew = << >> /\ told # << >> /\ told[1] - told[2] < now)
          => suppressed.start
    /\ ("end" \in tpc /\ told # << >> /\ tnew # << >>)
          => (suppressed.end <=> told[1] - told[2] = tnew[1] - tnew[2])
    /\ ("end" \in tpc /\ tnew = << >>)
          => (suppressed.end <=> told = << >>)

\* C11: a successful read replaces the state from the stored report and
\* merges nothing: time_range, formats and every schedule attribute are
\* those of the report, so a value of the earlier state that the report does
\* not have, such as a time range, is gone after the read.
C11_ReadReplacesState ==
    (op = "read" /\ result = ok /\ Exists(remote, d.id))
        => LET r == remote[d.id][1]
               tr == r.dashboards[1].timeRange[1]
           IN  /\ d.name = r.name
               /\ d.dashboard_uid = r.dashboards[1].dashboard.uid
               /\ d.time_range =
                     IF tr.from = "" /\ tr.to = "" THEN << >>
                     ELSE <<[from |-> tr.from, to |-> tr.to]>>
               /\ d.formats = r.formats
               /\ d.schedule.frequency = r.schedule.frequency
               /\ d.schedule.timezone = r.schedule.timeZone
               /\ d.schedule.workdays_only = r.schedule.workdaysOnly
               /\ d.schedule.last_day_of_month = (r.schedule.dayOfMonth = "last")
               /\ d.schedule.start_time = DateTimeString(r.schedule.startDate)
               /\ d.schedule.end_time = DateTimeString(r.schedule.endDate)
               /\ d.schedule.custom_interval =
                     IF r.schedule.intervalAmount = 2
                        /\ r.schedule.intervalFrequency = <<"days">>
                     THEN <<"2", " ", "days">> ELSE << >>

\* C12: with an empty dashboards list, a dashboard_uid gives exactly one
\* binding keyed by the uid with the legacy time range and template
\* variables, and leaves dashboardId unset even when dashboard_id is set; a
\* dashboard_id alone gives the id and the time range in the deprecated
\* slots and no binding; neither fails the build.  No command has both a
\* binding and the deprecated dashboardId.
C12_LegacyBinding ==
    LET legacyRange ==
            IF Len(cfg.time_range) > 0
            THEN [from |-> cfg.time_range[1].from, to |-> cfg.time_range[1].to]
            ELSE [from |-> "", to |-> ""]
    IN  /\ (Built /\ Len(cfg.dashboards) = 0 /\ cfg.dashboard_uid # "")
              => /\ build.cmd[1].dashboards =
                       <<[dashboard |-> [id |-> 0, uid |-> cfg.dashboard_uid],
                          reportVariables |-> cfg.template_vars,
                          timeRange |-> <<legacyRange>>]>>
                 /\ build.cmd[1].dashboardID = 0
                 /\ build.cmd[1].options.timeRange = << >>
        /\ (Built /\ Len(cfg.dashboards) = 0 /\ cfg.dashboard_uid = "")
              => /\ cfg.dashboard_id # 0
                 /\ build.cmd[1].dashboardID = cfg.dashboard_id
                 /\ build.cmd[1].options.timeRange = <<legacyRange>>
                 /\ build.cmd[1].templateVars = cfg.template_vars
                 /\ build.cmd[1].dashboards = << >>
        /\ (Attempted /\ Len(cfg.dashboards) = 0
            /\ cfg.dashboard_uid = "" /\ cfg.dashboard_id = 0)
              => (build.err = identityErr /\ Len(build.cmd) = 0)
        /\ Built => ~(Len(build.cmd[1].dashboards) > 0
                      /\ build.cmd[1].dashboardID # 0)

C12_Witness ==
    /\ Built
    /\ Len(cfg.dashboards) = 0
    /\ cfg.dashboard_uid = "report"
    /\ cfg.dashboard_id = 7
    /\ Len(cfg.time_range) = 1
    /\ Len(build.cmd[1].dashboards) = 1
    /\ build.cmd[1].dashboards[1].timeRange[1].from = "now-1h"
    /\ build.cmd[1].dashboardID = 0

\* C13: ReadReport ends with updated state or with an error for every
\* report the service can hold after creates and updates, also one without
\* dashboard bindings; it never aborts on a missing zeroth binding.
C13_ReadNeverAborts ==
    result \notin {panicIndex, panicNil}

====
